---- MODULE Spec2Model ----
(***************************************************************************)
(* Model of the ABS-elevate job queue, consumer, worker pipeline and       *)
(* callback notifier (src/job_queue.py, src/consumer.py, src/worker.py,    *)
(* src/callback_service.py, and the callees in src/captioning.py).         *)
(*                                                                         *)
(* The AMQP broker, the HTTP callback endpoint, the speech-to-text, LLM    *)
(* and object-store services are the environment: every call to them       *)
(* either returns or raises, chosen nondeterministically.                  *)
(***************************************************************************)
EXTENDS Integers, Sequences, FiniteSets, TLC

\* ------------------------------------------------------------------ bounds
\* Number of messages published to the primary queue in one run.
MaxPublished == 2
\* max_retries arguments 0..MaxRetriesArg are tried besides the default.
MaxRetriesArg == 1
\* upload_to_s3 calls in one run of the upload specification.
MaxUploads == 3
\* Consumer processes running consumer.py, and messages sent to them.
NumWorkers == 2
MaxMessages == 3
\* Caption entries handed to translate_srt.
MaxEntries == 2
\* Chapters in the lists handed to reconcile_chapters, and the latest time
\* in them (in units of half a second).
MaxPrimary == 2
MaxSecondary == 2
MaxTick == 3

\* ------------------------------------------------------- program constants
\* enqueue_job(job_payload, max_retries: int = 5)
ENQUEUE_MAX_RETRIES == 5
\* wait_time = 2 ** attempt
ENQUEUE_BACKOFF_BASE == 2
\* send_callback(..., max_retries: int = 3, backoff_factor: int = 2)
CALLBACK_MAX_RETRIES == 3
CALLBACK_BACKOFF_FACTOR == 2
\* ch.basic_qos(prefetch_count=1)
PREFETCH_COUNT == 1
\* MAX_RETRIES = int(os.getenv('TRANSLATION_MAX_RETRIES', 3))
TRANSLATION_MAX_RETRIES == 3
\* BACKOFF_FACTOR = int(os.getenv('TRANSLATION_BACKOFF', 2))
TRANSLATION_BACKOFF == 2

VARIABLES
    \* ---- broker (environment, driven by the program's AMQP calls)
    qdecl,        \* primary queue: "absent", "plain" (no arguments), "dlx"
    dlExchange,   \* dead-letter exchange declared
    dlQueue,      \* dead-letter queue declared
    dlBound,      \* dead-letter queue bound to the dead-letter exchange
    ready,        \* messages waiting in the primary queue (FIFO)
    unacked,      \* messages delivered to the consumer, not yet settled
    dlq,          \* messages in the dead-letter queue
    dropped,      \* number of messages the broker discarded
    \* ---- enqueue_job (one invocation at a time)
    epc,          \* "idle", "loop", "returned", "raised"
    emsg,         \* the job payload being enqueued
    emax,         \* max_retries
    eattempt,     \* attempt
    etries,       \* iterations of the while loop begun by this call
    ewaits,       \* the wait_time values slept, in order
    epublished,   \* basic_publish calls of this call that reached the broker
    published,    \* messages published to the primary queue so far
    \* ---- consumer process / on_message / process_job
    cstate,       \* "down", "consuming"
    pc,           \* position inside on_message / process_job
    job,          \* job = json.loads(body) of the current / last delivery
    err,          \* str(e) of the exception being handled
    langIdx,      \* position of the translation loop in languages
    urls,         \* translation_urls: the language codes with an URL
    store,        \* keys present in the artifact store
    trace,        \* calls made while handling the current delivery
    \* ---- send_callback (the current / last invocation)
    cbPayload,    \* the payload built at lines 38-46
    cbAttempt,    \* attempt
    cbPosts,      \* requests.post calls made
    cbWaits,      \* the wait values slept, in order
    cbReturn,     \* "none", "true", "false", "raised"
    \* ---- upload_to_s3 called on its own (history of the calls)
    puts,         \* the (job_id, category, code) the uploaded keys were built from
    nputs,        \* upload_to_s3 calls that returned
    \* ---- several consumer processes on one queue
    consumers,    \* the workers whose consumer is registered with the broker
    heldBy,       \* per worker: messages delivered to it and not yet settled
    poolReady,    \* message ids waiting in the queue (FIFO)
    redelivered,  \* message ids the broker requeued after a consumer ended
    sent,         \* message ids published so far: 1..sent
    \* ---- translate_srt / translate_text (one invocation at a time)
    tpc,          \* "idle", "loop", "call", "returned", "raised"
    tEntries,     \* entries
    tCode,        \* target_code
    tIdx,         \* position of the loop of translate_srt in entries
    tAttempt,     \* attempt of translate_text
    tWaits,       \* the wait values slept by translate_text, in order
    translated,   \* translated
    llmCalls,     \* the ChatCompletion.create calls made: entry and outcome
    \* ---- reconcile_chapters (the caller's lists and the last call)
    assembly,     \* the caller's primary list, as it is now
    llm,          \* the caller's secondary list
    asmAtCall,    \* the primary list as it was when the last call was made
    encounter,    \* reconciled before the sort of line 120
    reconciled,   \* the list returned by the last call
    prevReconciled, \* the list returned by the call before it
    titleLog,     \* the assignments of line 107 made by the last call
    rcalls,       \* calls made on these lists
    \* ---- write_srt / parse_srt on one caption file
    spc,          \* "idle", "written", "parsed", "raised", "rewritten"
    srtEntries,   \* the entries passed to write_srt
    srtDoc,       \* the content of the file write_srt wrote
    srtParsed,    \* the entries parse_srt returned from that file
    srtDoc2,      \* the content of the file written from the parsed entries
    \* ---- transcript_to_srt (one invocation)
    cpc,          \* "idle", "loop", "write", "returned", "raised"
    words,        \* words
    wIdx,         \* position of the loop of line 102 in words
    block_start,  \* block_start
    current_block, \* current_block
    srt_entries,  \* srt_entries
    cexc,         \* the exception the call raised
    captionFile   \* the blocks written to output_path so far

brokerVars == <<qdecl, dlExchange, dlQueue, dlBound, ready, unacked, dlq, dropped>>
enqueueVars == <<epc, emsg, emax, eattempt, etries, ewaits, epublished>>
workerVars == <<cstate, pc, job, err, langIdx, urls, store, trace>>
callbackVars == <<cbPayload, cbAttempt, cbPosts, cbWaits, cbReturn>>
systemVars == <<brokerVars, enqueueVars, published, workerVars, callbackVars>>
uploadVars == <<puts, nputs>>
\* The variables of the specifications of single functions.
poolVars == <<consumers, heldBy, poolReady, redelivered, sent>>
translateVars == <<tpc, tEntries, tCode, tIdx, tAttempt, tWaits, translated, llmCalls>>
reconcileVars ==
    <<assembly, llm, asmAtCall, encounter, reconciled, prevReconciled, titleLog, rcalls>>
srtVars == <<spc, srtEntries, srtDoc, srtParsed, srtDoc2>>
captionVars == <<cpc, words, wIdx, block_start, current_block, srt_entries, cexc, captionFile>>
fileVars == <<srtVars, captionVars>>
otherVars == <<uploadVars, poolVars, translateVars, reconcileVars, fileVars>>
vars == <<systemVars, otherVars>>

\* ------------------------------------------------------------ small helpers
RECURSIVE Pow(_, _)
Pow(b, n) == IF n = 0 THEN 1 ELSE b * Pow(b, n - 1)

\* An event of the per-delivery trace: the call, its argument, did it return.
Ev(op, arg, ok) == [op |-> op, arg |-> arg, ok |-> ok]

CountOp(tr, op) == Cardinality({i \in 1..Len(tr) : tr[i].op = op})

HasOp(tr, op) == \E i \in 1..Len(tr) : tr[i].op = op

\* ----------------------------------------------------------------- inputs
\* Job payloads upload_video builds (main.py lines 127-133): every key is
\* there, preferred_languages is what the client sent.  A remote source with
\* one supported language, a local source with a supported and an unsupported
\* language.
JobPayloads ==
    {[kind |-> "job", job_id |-> "j1", http |-> TRUE, langs |-> <<"fr">>],
     [kind |-> "job", job_id |-> "j2", http |-> FALSE, langs |-> <<"fr", "de">>]}

\* A body that is JSON but lacks 'file_path'.
PartialBody == [kind |-> "partial", job_id |-> "j3", http |-> FALSE, langs |-> << >>]

\* A body that is not JSON, as any client of the broker can publish.
GarbageBody == [kind |-> "garbage", job_id |-> "", http |-> FALSE, langs |-> << >>]

NoMsg == [kind |-> "none", job_id |-> "", http |-> FALSE, langs |-> << >>]

\* str(e) of an exception raised by a collaborator: Python exceptions built
\* without arguments have an empty description.
ErrorTexts == {"", "error"}

\* Outcome of a call to a collaborator: it returns, or raises an Exception.
CallOutcomes ==
    {[ok |-> TRUE, msg |-> ""]} \cup {[ok |-> FALSE, msg |-> m] : m \in ErrorTexts}

\* Outcome of a call on the AMQP channel (basic_ack, basic_nack).
ChannelOutcomes == {"ok", "raise"}

\* Outcome of one requests.post + raise_for_status: a 2xx response, a non-2xx
\* response (HTTPError), a transport error (both RequestException), or an
\* exception that is not a RequestException.
PostOutcomes == {"2xx", "non2xx", "transport", "other"}

\* max_retries values enqueue_job is called with: the default and small ones.
RetryArgs == (0..MaxRetriesArg) \cup {ENQUEUE_MAX_RETRIES}

\* ----------------------------------------------------------------- broker
\* queue.declare of the primary queue.  A queue that exists keeps the
\* arguments of its first declaration: a later declaration with other
\* arguments is either accepted without effect or refused by the broker
\* (the refusal is the caller's failure outcome).
DeclarePrimary(q, withDlx) ==
    IF q = "absent" THEN (IF withDlx THEN "dlx" ELSE "plain") ELSE q

\* basic.nack(requeue=False) / basic.reject on the primary queue: with
\* x-dead-letter-exchange set the message is republished to that exchange,
\* a fanout that copies it to every bound queue; otherwise it is discarded.
RoutedToDeadLetter == qdecl = "dlx" /\ dlExchange /\ dlQueue /\ dlBound

\* ---------------------------------------------------- job_queue.enqueue_job
\* The calls of one loop iteration, in order; an iteration fails at one of
\* them (all earlier ones have taken effect) or at none.
StepNo(step) ==
    CASE step = "connect"          -> 1   \* get_rabbitmq_connection, channel
      [] step = "exchange_declare" -> 2   \* setup_queue
      [] step = "dlq_declare"      -> 3
      [] step = "queue_bind"       -> 4
      [] step = "queue_declare"    -> 5
      [] step = "publish"          -> 6   \* channel.basic_publish
      [] step = "close"            -> 7   \* connection.close
      [] step = "none"             -> 8

FailPoints ==
    {"connect", "exchange_declare", "dlq_declare", "queue_bind",
     "queue_declare", "publish", "close", "none"}

\* Did the call `step` complete in an iteration that failed at `fail`?
Completed(step, fail) == StepNo(step) < StepNo(fail)

\* while attempt < max_retries   (variant: an off-by-one bound)
EnqueueLoopCondMutant(attempt, max_retries) == attempt <= max_retries
EnqueueLoopCond(attempt, max_retries) == attempt < max_retries

\* wait_time = 2 ** attempt
EnqueueWait(attempt) == Pow(ENQUEUE_BACKOFF_BASE, attempt)

\* A caller invokes enqueue_job(job_payload, max_retries).
EnqueueCall(payload, max_retries) ==
    /\ UNCHANGED otherVars
    /\ epc # "loop"
    /\ emsg' = payload
    /\ emax' = max_retries
    /\ eattempt' = 0
    /\ etries' = 0
    /\ ewaits' = << >>
    /\ epublished' = 0
    /\ epc' = "loop"
    /\ UNCHANGED <<brokerVars, published, workerVars, callbackVars>>

\* One iteration of the while loop: the try block up to the call that
\* raises, then either `return` or the except block.
EnqueueAttempt(fail) ==
    /\ UNCHANGED otherVars
    /\ epc = "loop"
    /\ EnqueueLoopCond(eattempt, emax)
    /\ etries' = etries + 1
    /\ dlExchange' = (dlExchange \/ Completed("exchange_declare", fail))
    /\ dlQueue' = (dlQueue \/ Completed("dlq_declare", fail))
    /\ dlBound' = (dlBound \/ Completed("queue_bind", fail))
    /\ qdecl' = IF Completed("queue_declare", fail)
                THEN DeclarePrimary(qdecl, TRUE) ELSE qdecl
    /\ IF Completed("publish", fail)
       THEN /\ published < MaxPublished
            /\ published' = published + 1
            /\ ready' = Append(ready, emsg)
            /\ epublished' = epublished + 1
       ELSE UNCHANGED <<ready, epublished, published>>
    /\ IF fail = "none"
       THEN /\ epc' = "returned"
            /\ UNCHANGED <<eattempt, ewaits>>
       ELSE /\ eattempt' = eattempt + 1
            /\ ewaits' = Append(ewaits, EnqueueWait(eattempt + 1))
            /\ epc' = "loop"
    /\ UNCHANGED <<unacked, dlq, dropped, emsg, emax, workerVars, callbackVars>>

\* raise Exception("Failed to enqueue job after multiple attempts")
EnqueueRaise ==
    /\ UNCHANGED otherVars
    /\ epc = "loop"
    /\ ~EnqueueLoopCond(eattempt, emax)
    /\ epc' = "raised"
    /\ UNCHANGED <<brokerVars, emsg, emax, eattempt, etries, ewaits,
                   epublished, published, workerVars, callbackVars>>

\* Another client of the broker publishes a body of its own to the default
\* exchange with the queue's name as routing key.
PublishRaw(body) ==
    /\ UNCHANGED otherVars
    /\ published < MaxPublished
    /\ qdecl # "absent"
    /\ published' = published + 1
    /\ ready' = Append(ready, body)
    /\ UNCHANGED <<qdecl, dlExchange, dlQueue, dlBound, unacked, dlq, dropped,
                   enqueueVars, workerVars, callbackVars>>

\* ------------------------------------------------- callback_service.send_callback
\* The payload of lines 38-46.  results carries 'submitted_at' only when the
\* caller put it there; error_message is added only for a failed status with
\* a non-empty (truthy) message.
BuildPayload(job_id, has_submitted_at, status, error_message, translations) ==
    [job_id |-> job_id,
     status |-> status,
     submitted_at |-> IF has_submitted_at THEN "submission_time" ELSE "utcnow",
     has_error_message |-> (status = "failed" /\ error_message # ""),
     error_message |-> IF status = "failed" THEN error_message ELSE "",
     translations |-> translations]

NoPayload == BuildPayload("", FALSE, "none", "", {})

\* while attempt < max_retries   (variant: an off-by-one bound)
CallbackLoopCondMutant(attempt, max_retries) == attempt <= max_retries
CallbackLoopCond(attempt, max_retries) == attempt < max_retries

\* wait = backoff_factor ** attempt
CallbackWait(attempt) == Pow(CALLBACK_BACKOFF_FACTOR, attempt)

\* Where process_job continues when send_callback returns (True or False):
\* after the completed callback it logs and returns, so on_message calls
\* basic_ack; after the failed callback it re-raises, so on_message calls
\* basic_nack.  The return value is not looked at.
AfterCallback(status, returned) ==
    IF status = "completed" THEN "ack" ELSE "nack"

\* Where control goes when send_callback raises: the call of line 110 is
\* inside the try block, so the except block of line 113 catches it; the
\* call of line 115 is inside the except block, so the exception leaves
\* process_job for on_message's except clause.
\* (variant: the call of line 115 guarded by the same handler)
AfterCallbackRaisedMutant(status) == "except"
AfterCallbackRaised(status) == IF status = "completed" THEN "except" ELSE "nack"

\* ------------------------------------------------------ captioning.py callees
\* ms_to_srt_timestamp formats with td.hours; datetime.timedelta has no such
\* attribute, so every call raises AttributeError (line 78).
MsToSrtTimestampRaises == TRUE

\* transcript_to_srt(transcript_json, output_path): transcript_json.get needs
\* a dict (line 85); no words raises ValueError (line 87); otherwise at least
\* one block is flushed and written through ms_to_srt_timestamp (lines 125-126).
TranscriptToSrtRaises(arg_kind, n_words) ==
    \/ arg_kind # "dict"
    \/ n_words = 0
    \/ MsToSrtTimestampRaises

\* process_job passes transcript.words, a list, as transcript_json (line 77).
WordsArgKind == "list"

\* translation.TARGET_LANGUAGE_MAP
TARGET_LANGUAGE_MAP == {"en", "fr", "es", "ar"}

\* The artifact keys of lines 78, 89 and 100, formatted as the f-strings do.
CaptionsKey(job_id) == job_id \o "/captions/" \o job_id \o ".srt"
ChaptersKey(job_id) == job_id \o "/chapters/" \o job_id \o "_reconciled.json"
\* (variant: the directory part left out)
TranslationKeyMutant(job_id, code) == job_id \o "_" \o code \o ".srt"
TranslationKey(job_id, code) ==
    job_id \o "/translations/" \o job_id \o "_" \o code \o ".srt"

\* ------------------------------------------------------------ consumer.py
\* The consumer process starts: connect, queue_declare(queue, durable=True)
\* without arguments, basic_qos(prefetch_count=1), basic_consume.  A failed
\* connection or a refused declaration ends the process at once.
ConsumerStart(outcome) ==
    /\ UNCHANGED otherVars
    /\ cstate = "down"
    /\ IF outcome = "ok"
       THEN /\ qdecl' = DeclarePrimary(qdecl, FALSE)
            /\ cstate' = "consuming"
            /\ pc' = "idle"
       ELSE UNCHANGED <<qdecl, cstate, pc>>
    /\ UNCHANGED <<dlExchange, dlQueue, dlBound, ready, unacked, dlq, dropped,
                   enqueueVars, published, job, err, langIdx, urls, store, trace,
                   callbackVars>>

\* The broker delivers the head of the queue to the consumer, which holds
\* fewer than prefetch_count unsettled messages; on_message is entered.
Deliver ==
    /\ UNCHANGED otherVars
    /\ cstate = "consuming"
    /\ pc \in {"idle", "done"}
    /\ Len(unacked) < PREFETCH_COUNT
    /\ ready # << >>
    /\ unacked' = Append(unacked, Head(ready))
    /\ ready' = Tail(ready)
    /\ pc' = "loads"
    /\ job' = NoMsg
    /\ trace' = << >>
    /\ err' = ""
    /\ langIdx' = 0
    /\ urls' = {}
    /\ cbPayload' = NoPayload
    /\ cbAttempt' = 0
    /\ cbPosts' = 0
    /\ cbWaits' = << >>
    /\ cbReturn' = "none"
    /\ UNCHANGED <<qdecl, dlExchange, dlQueue, dlBound, dlq, dropped,
                   enqueueVars, published, cstate, store>>

\* on_message line 6: job = json.loads(body), outside the try block.  A body
\* that is not JSON raises out of on_message and out of start_consuming: the
\* process ends, its connection closes and the broker requeues the message.
JsonLoads ==
    /\ UNCHANGED otherVars
    /\ cstate = "consuming"
    /\ pc = "loads"
    /\ IF Head(unacked).kind = "garbage"
       THEN /\ trace' = Append(trace, Ev("json_loads", "", FALSE))
            /\ pc' = "crashed"
            /\ cstate' = "down"
            /\ ready' = unacked \o ready
            /\ unacked' = << >>
            /\ UNCHANGED job
       ELSE /\ trace' = Append(trace, Ev("json_loads", "", TRUE))
            /\ pc' = "fields"
            /\ job' = Head(unacked)
            /\ UNCHANGED <<cstate, ready, unacked>>
    /\ UNCHANGED <<qdecl, dlExchange, dlQueue, dlBound, dlq, dropped,
                   enqueueVars, published, err, langIdx, urls, store,
                   callbackVars>>

\* process_job lines 57-61: the job's fields are read before the try block.
\* A missing 'job_id', 'file_path' or 'callback_url' raises KeyError straight
\* to on_message's except clause.
ReadFieldsNext(kind) == IF kind = "partial" THEN "nack" ELSE "download"

ReadFields ==
    /\ UNCHANGED otherVars
    /\ cstate = "consuming"
    /\ pc = "fields"
    /\ pc' = ReadFieldsNext(job.kind)
    /\ trace' = Append(trace, Ev("read_fields", "", job.kind # "partial"))
    /\ UNCHANGED <<brokerVars, enqueueVars, published, cstate, job, err, langIdx,
                   urls, store, callbackVars>>

\* ---------------------------------------------------- worker.process_job
\* The statements of the try block (lines 63-111), by position.
TryPcs ==
    {"download", "transcribe", "to_srt", "upload_captions", "asm_chapters",
     "llm_chapters", "reconcile", "upload_chapters", "parse_srt", "translate",
     "upload_tr", "cb_completed"}

\* The call made at a position, as it is named in the trace.
StepOp(p) ==
    CASE p = "download"        -> "download_media"
      [] p = "transcribe"      -> "transcribe"
      [] p = "to_srt"          -> "transcript_to_srt"
      [] p = "asm_chapters"    -> "get_assembly_transcript"
      [] p = "llm_chapters"    -> "generate_llm_chapters"
      [] p = "reconcile"       -> "reconcile_chapters"
      [] p = "parse_srt"       -> "parse_srt"
      [] p = "translate"       -> "translate_srt"
      [] p \in {"upload_captions", "upload_chapters", "upload_tr"} -> "upload_to_s3"
      [] OTHER                 -> "send_callback"

\* The calls that leave the process: their outcome is the environment's.
CollaboratorPcs ==
    {"download", "transcribe", "upload_captions", "asm_chapters",
     "llm_chapters", "upload_chapters", "translate", "upload_tr"}

\* The statement that follows a position when its statement returns.
StepNext(p) ==
    CASE p = "download"        -> "transcribe"
      [] p = "transcribe"      -> "to_srt"
      [] p = "to_srt"          -> "upload_captions"
      [] p = "upload_captions" -> "asm_chapters"
      [] p = "asm_chapters"    -> "llm_chapters"
      [] p = "llm_chapters"    -> "reconcile"
      [] p = "reconcile"       -> "upload_chapters"
      [] p = "upload_chapters" -> "parse_srt"
      [] p = "parse_srt"       -> "translate"
      [] p = "translate"       -> "upload_tr"
      [] p = "upload_tr"       -> "translate"
      [] OTHER                 -> "cb_loop"

\* Does the statement at p raise?  A collaborator call raises when the
\* environment says so; transcript_to_srt and translate_text (unsupported
\* code, line 61 of translation.py) raise by their own code.
StepRaises(p, code, o) ==
    \/ p \in CollaboratorPcs /\ ~o.ok
    \/ p = "to_srt" /\ TranscriptToSrtRaises(WordsArgKind, 1)
    \/ p = "translate" /\ code \notin TARGET_LANGUAGE_MAP

\* str(e) of what the statement at p raised.
StepError(p, o) == IF p \in CollaboratorPcs /\ ~o.ok THEN o.msg ELSE "error"

\* status of the callback sent from the except block (line 115)
\* (variant: the status of line 110 pasted into the except block)
HandlerStatusMutant == "completed"
HandlerStatus == "failed"

\* One statement of the try block, with outcome o of the call it makes.
\* Since transcript_to_srt raises on every call, the positions from
\* "upload_captions" on are written down as the source has them but no
\* behaviour reaches them; the same holds for line 9 of on_message.
ProcessJobStep(o) ==
    /\ UNCHANGED otherVars
    /\ cstate = "consuming"
    /\ pc \in TryPcs
    /\ LET inLoop == pc \in {"translate", "upload_tr"} /\ langIdx \in 1..Len(job.langs)
           code == IF inLoop THEN job.langs[langIdx] ELSE ""
           arg == CASE pc = "upload_captions" -> "captions"
                    [] pc = "upload_chapters" -> "chapters"
                    [] OTHER -> code
           key == CASE pc = "upload_captions" -> CaptionsKey(job.job_id)
                    [] pc = "upload_chapters" -> ChaptersKey(job.job_id)
                    [] OTHER -> TranslationKey(job.job_id, code)
       IN
       IF pc = "cb_completed"
       THEN \* lines 104-110: results, send_callback(..., status='completed')
            /\ cbPayload' = BuildPayload(job.job_id, TRUE, "completed", "", urls)
            /\ cbAttempt' = 0
            /\ cbPosts' = 0
            /\ cbWaits' = << >>
            /\ cbReturn' = "none"
            /\ trace' = Append(trace, Ev("send_callback", "completed", TRUE))
            /\ pc' = "cb_loop"
            /\ UNCHANGED <<err, langIdx, urls, store>>
       ELSE IF pc = "download" /\ ~job.http
       THEN \* line 66: a local path is not downloaded
            /\ pc' = "transcribe"
            /\ UNCHANGED <<err, langIdx, urls, store, trace, callbackVars>>
       ELSE IF pc = "translate" /\ langIdx > Len(job.langs)
       THEN \* line 96: the loop over languages is exhausted
            /\ pc' = "cb_completed"
            /\ UNCHANGED <<err, langIdx, urls, store, trace, callbackVars>>
       ELSE IF StepRaises(pc, code, o)
       THEN \* line 113: except Exception as e
            /\ pc' = "except"
            /\ err' = StepError(pc, o)
            /\ trace' = Append(trace, Ev(StepOp(pc), arg, FALSE))
            /\ UNCHANGED <<langIdx, urls, store, callbackVars>>
       ELSE /\ pc' = StepNext(pc)
            /\ trace' = Append(trace, Ev(StepOp(pc), arg, TRUE))
            /\ store' = IF StepOp(pc) = "upload_to_s3" THEN store \cup {key} ELSE store
            /\ urls' = CASE pc = "parse_srt" -> {}
                         [] pc = "upload_tr" -> urls \cup {code}
                         [] OTHER -> urls
            /\ langIdx' = CASE pc = "parse_srt" -> 1
                            [] pc = "upload_tr" -> langIdx + 1
                            [] OTHER -> langIdx
            /\ UNCHANGED <<err, callbackVars>>
    /\ UNCHANGED <<brokerVars, enqueueVars, published, cstate, job>>

\* The except block, lines 113-116: log, then
\* send_callback(job_id, callback_url, {}, status='failed', error_message=str(e)).
ExceptHandler ==
    /\ UNCHANGED otherVars
    /\ cstate = "consuming"
    /\ pc = "except"
    /\ cbPayload' = BuildPayload(job.job_id, FALSE, HandlerStatus, err, {})
    /\ cbAttempt' = 0
    /\ cbPosts' = 0
    /\ cbWaits' = << >>
    /\ cbReturn' = "none"
    /\ trace' = Append(trace, Ev("send_callback", HandlerStatus, TRUE))
    /\ pc' = "cb_loop"
    /\ UNCHANGED <<brokerVars, enqueueVars, published, cstate, job, err,
                   langIdx, urls, store>>

\* send_callback, one iteration of the while loop (lines 51-61): a POST that
\* succeeds returns True; a RequestException sleeps and counts the attempt;
\* any other exception leaves send_callback.  Raised from the completed
\* callback it is caught by process_job's except block; raised from the
\* failed callback it leaves process_job for on_message's except clause.
SendCallbackPost(o) ==
    /\ UNCHANGED otherVars
    /\ cstate = "consuming"
    /\ pc = "cb_loop"
    /\ CallbackLoopCond(cbAttempt, CALLBACK_MAX_RETRIES)
    /\ cbPosts' = cbPosts + 1
    /\ trace' = Append(trace, Ev("post", cbPayload.status, o = "2xx"))
    /\ IF o = "2xx"
       THEN /\ cbReturn' = "true"
            /\ pc' = AfterCallback(cbPayload.status, TRUE)
            /\ UNCHANGED <<cbAttempt, cbWaits, err>>
       ELSE IF o \in {"non2xx", "transport"}
       THEN /\ cbWaits' = Append(cbWaits, CallbackWait(cbAttempt))
            /\ cbAttempt' = cbAttempt + 1
            /\ UNCHANGED <<cbReturn, pc, err>>
       ELSE /\ cbReturn' = "raised"
            /\ pc' = AfterCallbackRaised(cbPayload.status)
            /\ err' = "error"
            /\ UNCHANGED <<cbAttempt, cbWaits>>
    /\ UNCHANGED <<brokerVars, enqueueVars, published, cstate, job, langIdx,
                   urls, store, cbPayload>>

\* send_callback lines 63-64: all attempts failed, return False.
SendCallbackExhausted ==
    /\ UNCHANGED otherVars
    /\ cstate = "consuming"
    /\ pc = "cb_loop"
    /\ ~CallbackLoopCond(cbAttempt, CALLBACK_MAX_RETRIES)
    /\ cbReturn' = "false"
    /\ pc' = AfterCallback(cbPayload.status, FALSE)
    /\ UNCHANGED <<brokerVars, enqueueVars, published, cstate, job, err,
                   langIdx, urls, store, trace, cbPayload, cbAttempt, cbPosts,
                   cbWaits>>

\* ------------------------------------------------- consumer.on_message, end
\* basic_nack(delivery_tag, requeue=False)
NackRequeue == FALSE

\* on_message lines 9 and 12, with outcome o of the channel call.
\*   line 9:  basic_ack after process_job returned; if the call raises, the
\*            except clause of line 10 catches it and line 12 runs.
\*   line 12: basic_nack(requeue=False); the broker dead-letters or discards
\*            the message.  If the call raises, the exception leaves
\*            on_message, the process ends and the broker requeues.
SettleDelivery(o) ==
    /\ UNCHANGED otherVars
    /\ cstate = "consuming"
    /\ pc \in {"ack", "nack"}
    /\ IF pc = "ack"
       THEN /\ trace' = Append(trace, Ev("basic_ack", "", o = "ok"))
            /\ IF o = "ok"
               THEN /\ unacked' = << >>
                    /\ pc' = "done"
               ELSE /\ pc' = "nack"
                    /\ UNCHANGED unacked
            /\ UNCHANGED <<ready, dlq, dropped, cstate>>
       ELSE /\ trace' = Append(trace,
                   Ev("basic_nack", IF NackRequeue THEN "requeue" ELSE "no_requeue",
                      o = "ok"))
            /\ unacked' = << >>
            /\ IF o = "ok"
               THEN /\ pc' = "done"
                    /\ UNCHANGED cstate
                    /\ IF NackRequeue
                       THEN /\ ready' = unacked \o ready
                            /\ UNCHANGED <<dlq, dropped>>
                       ELSE IF RoutedToDeadLetter
                       THEN /\ dlq' = dlq \o unacked
                            /\ UNCHANGED <<ready, dropped>>
                       ELSE /\ dropped' = dropped + Len(unacked)
                            /\ UNCHANGED <<ready, dlq>>
               ELSE /\ pc' = "crashed"
                    /\ cstate' = "down"
                    /\ ready' = unacked \o ready
                    /\ UNCHANGED <<dlq, dropped>>
    /\ UNCHANGED <<qdecl, dlExchange, dlQueue, dlBound, enqueueVars, published,
                   job, err, langIdx, urls, store, callbackVars>>

\* transcript_to_srt: block_start = None, before the first word.
None == -1

\* ------------------------------------------------------------ specification
Init ==
    /\ qdecl = "absent"
    /\ dlExchange = FALSE
    /\ dlQueue = FALSE
    /\ dlBound = FALSE
    /\ ready = << >>
    /\ unacked = << >>
    /\ dlq = << >>
    /\ dropped = 0
    /\ epc = "idle"
    /\ emsg = NoMsg
    /\ emax = 0
    /\ eattempt = 0
    /\ etries = 0
    /\ ewaits = << >>
    /\ epublished = 0
    /\ published = 0
    /\ cstate = "down"
    /\ pc = "idle"
    /\ job = NoMsg
    /\ err = ""
    /\ langIdx = 0
    /\ urls = {}
    /\ store = {}
    /\ trace = << >>
    /\ cbPayload = NoPayload
    /\ cbAttempt = 0
    /\ cbPosts = 0
    /\ cbWaits = << >>
    /\ cbReturn = "none"
    /\ puts = {}
    /\ nputs = 0
    /\ consumers = {}
    /\ heldBy = [w \in 1..NumWorkers |-> << >>]
    /\ poolReady = << >>
    /\ redelivered = {}
    /\ sent = 0
    /\ tpc = "idle"
    /\ tEntries = << >>
    /\ tCode = ""
    /\ tIdx = 0
    /\ tAttempt = 0
    /\ tWaits = << >>
    /\ translated = << >>
    /\ llmCalls = << >>
    /\ assembly = << >>
    /\ llm = << >>
    /\ asmAtCall = << >>
    /\ encounter = << >>
    /\ reconciled = << >>
    /\ prevReconciled = << >>
    /\ titleLog = << >>
    /\ rcalls = 0
    /\ spc = "idle"
    /\ srtEntries = << >>
    /\ srtDoc = << >>
    /\ srtParsed = << >>
    /\ srtDoc2 = << >>
    /\ cpc = "idle"
    /\ words = << >>
    /\ wIdx = 0
    /\ block_start = None
    /\ current_block = << >>
    /\ srt_entries = << >>
    /\ cexc = ""
    /\ captionFile = << >>

Next ==
    \/ \E p \in JobPayloads : EnqueueCall(p, ENQUEUE_MAX_RETRIES)
    \/ \E f \in FailPoints : EnqueueAttempt(f)
    \/ EnqueueRaise
    \/ \E b \in {GarbageBody, PartialBody} : PublishRaw(b)
    \/ \E o \in {"ok", "refused"} : ConsumerStart(o)
    \/ Deliver
    \/ JsonLoads
    \/ ReadFields
    \/ \E o \in CallOutcomes : ProcessJobStep(o)
    \/ ExceptHandler
    \/ \E o \in PostOutcomes : SendCallbackPost(o)
    \/ SendCallbackExhausted
    \/ \E o \in ChannelOutcomes : SettleDelivery(o)

Spec == Init /\ [][Next]_vars

\* The same system when nothing stops for ever: the broker delivers what is
\* ready, the consumer process runs each handler to its end, a consumer that
\* ended is started again and its queue declaration is accepted, and a
\* channel call that keeps being made succeeds in the end.
Fairness ==
    /\ WF_vars(ConsumerStart("ok"))
    /\ WF_vars(Deliver)
    /\ WF_vars(JsonLoads)
    /\ WF_vars(ReadFields)
    /\ WF_vars(\E o \in CallOutcomes : ProcessJobStep(o))
    /\ WF_vars(ExceptHandler)
    /\ WF_vars(\E o \in PostOutcomes : SendCallbackPost(o))
    /\ WF_vars(SendCallbackExhausted)
    /\ SF_vars(SettleDelivery("ok"))

SpecFair == Init /\ [][Next]_vars /\ Fairness

\* enqueue_job alone, called with any max_retries, against a broker whose
\* every call may fail.
NextEnqueue ==
    \/ \E p \in JobPayloads, m \in RetryArgs : EnqueueCall(p, m)
    \/ \E f \in FailPoints : EnqueueAttempt(f)
    \/ EnqueueRaise

SpecEnqueue == Init /\ [][NextEnqueue]_vars

\* ------------------------------------------------ worker.py, the uploads alone
\* Job ids and language codes the keys are built from.  upload_video mints
\* the ids (uuid4: no '/'); the codes are whatever the client sent.
UploadJobIds == {"j1", "j1_fr", "j2"}
UploadCodes == {"fr", "es", "fr_es"}

\* The key built for an artifact of a category (lines 78, 89, 100).
ArtifactKey(job_id, category, code) ==
    CASE category = "captions" -> CaptionsKey(job_id)
      [] category = "chapters" -> ChaptersKey(job_id)
      [] OTHER -> TranslationKey(job_id, code)

\* What process_job uploads: captions and chapters of a job, and one
\* translation for a language code.
Artifacts ==
    {<<j, c, "">> : j \in UploadJobIds, c \in {"captions", "chapters"}}
        \cup {<<j, "translations", code>> : j \in UploadJobIds, code \in UploadCodes}

\* upload_to_s3(local_path, s3_key) for one artifact, in any order and any
\* number of times, as deliveries and redeliveries of jobs make them: the
\* object is put under the key, replacing what was there; a call that raises
\* puts nothing.
UploadToS3(a, o) ==
    /\ nputs < MaxUploads
    /\ IF o.ok
       THEN /\ store' = store \cup {ArtifactKey(a[1], a[2], a[3])}
            /\ puts' = puts \cup {a}
            /\ nputs' = nputs + 1
       ELSE UNCHANGED <<store, puts, nputs>>
    /\ UNCHANGED <<brokerVars, enqueueVars, published, callbackVars,
                   cstate, pc, job, err, langIdx, urls, trace, poolVars,
                   translateVars, reconcileVars, fileVars>>

NextUpload == \E a \in Artifacts, o \in CallOutcomes : UploadToS3(a, o)

SpecUpload == Init /\ [][NextUpload]_vars

\* ------------------------------------- consumer.py run by several processes
\* Each worker is one consumer.py process with a channel of its own; a
\* delivery is handled by on_message as a whole (the steps are those of the
\* single consumer above).
Workers == 1..NumWorkers

\* basic_qos(prefetch_count=1): the broker sends a consumer a message only
\* while it holds fewer than prefetch_count unsettled ones
\* (variant: one more than that)
WithinPrefetchMutant(n) == n <= PREFETCH_COUNT
WithinPrefetch(n) == n < PREFETCH_COUNT

\* __main__: connect, queue_declare, basic_qos, basic_consume.
PoolStart(w) ==
    /\ w \notin consumers
    /\ consumers' = consumers \cup {w}
    /\ UNCHANGED <<heldBy, poolReady, redelivered, sent, systemVars, uploadVars, translateVars, reconcileVars, fileVars>>

\* A message is published to the queue.
PoolPublish ==
    /\ sent < MaxMessages
    /\ sent' = sent + 1
    /\ poolReady' = Append(poolReady, sent + 1)
    /\ UNCHANGED <<consumers, heldBy, redelivered, systemVars, uploadVars, translateVars, reconcileVars, fileVars>>

\* The broker hands the head of the queue to a registered consumer.
PoolDeliver(w) ==
    /\ w \in consumers
    /\ poolReady # << >>
    /\ WithinPrefetch(Len(heldBy[w]))
    /\ heldBy' = [heldBy EXCEPT ![w] = Append(@, Head(poolReady))]
    /\ poolReady' = Tail(poolReady)
    /\ UNCHANGED <<consumers, redelivered, sent, systemVars, uploadVars, translateVars, reconcileVars, fileVars>>

\* on_message returns: it called basic_ack (line 9) or
\* basic_nack(requeue=False) (line 12) for the delivery it was handling.
PoolSettle(w) ==
    /\ w \in consumers
    /\ heldBy[w] # << >>
    /\ heldBy' = [heldBy EXCEPT ![w] = Tail(@)]
    /\ UNCHANGED <<consumers, poolReady, redelivered, sent, systemVars, uploadVars, translateVars, reconcileVars, fileVars>>

\* The process ends while it holds a delivery (an exception leaves
\* on_message at line 6 or 12, or the process is killed): its channel closes
\* and the broker requeues what it held, flagged as redelivered.
PoolCrash(w) ==
    /\ w \in consumers
    /\ consumers' = consumers \ {w}
    /\ poolReady' = heldBy[w] \o poolReady
    /\ redelivered' = redelivered \cup {heldBy[w][i] : i \in 1..Len(heldBy[w])}
    /\ heldBy' = [heldBy EXCEPT ![w] = << >>]
    /\ UNCHANGED <<sent, systemVars, uploadVars, translateVars, reconcileVars, fileVars>>

NextPool ==
    \/ PoolPublish
    \/ \E w \in Workers : PoolStart(w)
    \/ \E w \in Workers : PoolDeliver(w)
    \/ \E w \in Workers : PoolSettle(w)
    \/ \E w \in Workers : PoolCrash(w)

SpecPool == Init /\ [][NextPool]_vars

\* ------------------------------------------ translation.py, translate_srt
\* Caption entries as parse_srt yields them: index, start, end, text.
CaptionTexts == {"hello", "bye"}

CaptionEntry(i, text) ==
    [index |-> i, start |-> 2 * i - 2, end |-> 2 * i - 1, text |-> text]

EntryLists ==
    UNION {{[i \in 1..n |-> CaptionEntry(i, f[i])] : f \in [1..n -> CaptionTexts]}
               : n \in 0..MaxEntries}

\* Outcome of openai.ChatCompletion.create: a completion with its content
\* stripped, an openai.error.OpenAIError, or another exception.
LlmOutcomes ==
    {[kind |-> "text", text |-> t] : t \in {"bonjour", ""}}
        \cup {[kind |-> k, text |-> ""] : k \in {"openai_error", "other_error"}}

\* for attempt in range(MAX_RETRIES)
TranslateLoopCond(attempt) == attempt < TRANSLATION_MAX_RETRIES

\* wait = BACKOFF_FACTOR ** attempt
TranslateWait(attempt) == Pow(TRANSLATION_BACKOFF, attempt)

\* translate_srt(entries, target_code) is called.
TranslateSrtCall(entries, code) ==
    /\ tpc # "loop" /\ tpc # "call"
    /\ tEntries' = entries
    /\ tCode' = code
    /\ tIdx' = 1
    /\ tAttempt' = 0
    /\ tWaits' = << >>
    /\ translated' = << >>
    /\ llmCalls' = << >>
    /\ tpc' = "loop"
    /\ UNCHANGED <<systemVars, uploadVars, poolVars, reconcileVars, fileVars>>

\* translate_srt line 90, and translate_text lines 60-66 for the next entry:
\* the loop ends and translated is returned, or translate_text is entered and
\* raises ValueError for a code outside TARGET_LANGUAGE_MAP, or builds the
\* prompt and starts its attempts.
TranslateSrtLoop ==
    /\ tpc = "loop"
    /\ tpc' = IF tIdx > Len(tEntries) THEN "returned"
              ELSE IF tCode \notin TARGET_LANGUAGE_MAP THEN "raised"
              ELSE "call"
    /\ tAttempt' = 0
    /\ UNCHANGED <<tEntries, tCode, tIdx, tWaits, translated, llmCalls,
                   systemVars, uploadVars, poolVars, reconcileVars, fileVars>>

\* translate_srt lines 92-97: the dict appended for entry e with its
\* translation txt
\* (variant: 'end' taken from the entry's start)
TranslatedEntryMutant(e, txt) ==
    [index |-> e.index, start |-> e.start, end |-> e.start, text |-> txt]
TranslatedEntry(e, txt) ==
    [index |-> e.index, start |-> e.start, end |-> e.end, text |-> txt]

\* translate_text lines 67-81, one attempt: the completion is returned and
\* translate_srt appends the entry with the new text (lines 92-97); an
\* OpenAIError is slept on and the loop goes on; any other exception leaves
\* translate_text and translate_srt.
TranslateTextAttempt(o) ==
    /\ tpc = "call"
    /\ TranslateLoopCond(tAttempt)
    /\ llmCalls' = Append(llmCalls, [entry |-> tIdx, ok |-> o.kind = "text"])
    /\ IF o.kind = "text"
       THEN /\ translated' = Append(translated, TranslatedEntry(tEntries[tIdx], o.text))
            /\ tIdx' = tIdx + 1
            /\ tpc' = "loop"
            /\ UNCHANGED <<tAttempt, tWaits>>
       ELSE IF o.kind = "openai_error"
       THEN /\ tWaits' = Append(tWaits, TranslateWait(tAttempt))
            /\ tAttempt' = tAttempt + 1
            /\ UNCHANGED <<translated, tIdx, tpc>>
       ELSE /\ tpc' = "raised"
            /\ UNCHANGED <<translated, tIdx, tAttempt, tWaits>>
    /\ UNCHANGED <<tEntries, tCode, systemVars, uploadVars, poolVars, reconcileVars, fileVars>>

\* translate_text line 82: raise RuntimeError after the last attempt.
TranslateTextExhausted ==
    /\ tpc = "call"
    /\ ~TranslateLoopCond(tAttempt)
    /\ tpc' = "raised"
    /\ UNCHANGED <<tEntries, tCode, tIdx, tAttempt, tWaits, translated, llmCalls,
                   systemVars, uploadVars, poolVars, reconcileVars, fileVars>>

NextTranslate ==
    \/ \E entries \in EntryLists, code \in {"fr", "de"} : TranslateSrtCall(entries, code)
    \/ TranslateSrtLoop
    \/ \E o \in LlmOutcomes : TranslateTextAttempt(o)
    \/ TranslateTextExhausted

SpecTranslate == Init /\ [][NextTranslate]_vars

\* ------------------------------------- auto_chapters.py, reconcile_chapters
\* Times are counted in half seconds; this is the 1 (second) of line 111.
OneSecond == 2

AbsDiff(a, b) == IF a >= b THEN a - b ELSE b - a

Reverse(seq) == [i \in 1..Len(seq) |-> seq[Len(seq) + 1 - i]]

\* A chapter of the primary list, as AssemblyAI returns it: start, end and a
\* headline (lines 142-143), start < end.
PrimaryChapters ==
    {c \in [start : 0..MaxTick, end : 0..MaxTick, headline : {"a", "bb"}] : c.start < c.end}

\* A chapter of the LLM's list: start, end, title (line 70).
Markers ==
    {[start |-> a, end |-> a + 1, title |-> t] : a \in 0..MaxTick, t \in {"a", "bb", "ccc"}}

\* Primary lists: sorted by start and non-overlapping, or such a list reversed.
PrimaryLists ==
    LET sorted == UNION {{p \in [1..n -> PrimaryChapters] :
                             \A i \in 1..(n - 1) : p[i].end <= p[i + 1].start}
                            : n \in 0..MaxPrimary}
    IN sorted \cup {Reverse(p) : p \in sorted}

\* Secondary lists: any markers in any order.
SecondaryLists == UNION {[1..n -> Markers] : n \in 0..MaxSecondary}

\* line 104: asm['start'] <= marker['start'] < asm['end']
StartsWithin(asm, marker) == asm.start <= marker.start /\ marker.start < asm.end

\* line 106: len(marker['title']) > len(asm['headline'] if 'headline' in asm else '')
HeadlineLen(asm) == IF "headline" \in DOMAIN asm THEN Len(asm.headline) ELSE 0

MoreDescriptive(asm, marker) == Len(marker.title) > HeadlineLen(asm)

\* line 107: reconciled[-1]['title'] = marker['title'].  reconciled[-1] is
\* the dict asm itself (line 101 appends the object, not a copy), so the
\* chapter in the caller's list gets the key too.
\* (variant: the chapter replaced by the marker)
OverrideTitleMutant(asm, marker) == marker
OverrideTitle(asm, marker) ==
    [k \in DOMAIN asm \cup {"title"} |-> IF k = "title" THEN marker.title ELSE asm[k]]

\* The title a chapter shows: its 'title' when it has one, else its headline.
CurrentTitle(asm) ==
    IF "title" \in DOMAIN asm THEN asm.title
    ELSE IF "headline" \in DOMAIN asm THEN asm.headline
    ELSE ""

\* lines 103-107 for the chapter asm = assembly[i], from marker j on: the
\* chapter after the scan, and the assignments made.
RECURSIVE ScanMarkers(_, _, _, _)
ScanMarkers(asm, i, markers, j) ==
    IF j > Len(markers) THEN [chapter |-> asm, log |-> << >>]
    ELSE IF StartsWithin(asm, markers[j]) /\ MoreDescriptive(asm, markers[j])
    THEN LET rest == ScanMarkers(OverrideTitle(asm, markers[j]), i, markers, j + 1)
         IN [chapter |-> rest.chapter,
             log |-> <<[asm |-> i, marker |-> j, held |-> CurrentTitle(asm),
                        new |-> markers[j].title]>> \o rest.log]
    ELSE ScanMarkers(asm, i, markers, j + 1)

\* lines 99-107: the first loop, for every chapter of the primary list.
ScanAssembly(chapters, markers) ==
    [i \in 1..Len(chapters) |-> ScanMarkers(chapters[i], i, markers, 1)]

\* The assignments of line 107 of the scans from chapter i on, in order.
RECURSIVE ScanLog(_, _)
ScanLog(scans, i) ==
    IF i > Len(scans) THEN << >> ELSE scans[i].log \o ScanLog(scans, i + 1)

\* lines 110-112: any(abs(marker['start'] - asm['start']) < 1 for asm in assembly)
Overlap(marker, chapters) ==
    \E i \in 1..Len(chapters) : AbsDiff(marker.start, chapters[i].start) < OneSecond

\* lines 114-118
NovelEntry(marker) ==
    [start |-> marker.start, end |-> marker.end, headline |-> marker.title]

\* lines 109-118 from marker j on
RECURSIVE NovelEntries(_, _, _)
NovelEntries(chapters, markers, j) ==
    IF j > Len(markers) THEN << >>
    ELSE (IF Overlap(markers[j], chapters) THEN << >> ELSE <<NovelEntry(markers[j])>>)
             \o NovelEntries(chapters, markers, j + 1)

\* list.sort(key=lambda x: x['start']) is stable: an entry goes behind every
\* entry whose start is not greater than its own.
\* (variant: it goes before the entries with an equal start)
RECURSIVE InsertByStartMutant(_, _)
InsertByStartMutant(sorted, x) ==
    IF sorted = << >> THEN <<x>>
    ELSE IF Head(sorted).start < x.start
    THEN <<Head(sorted)>> \o InsertByStartMutant(Tail(sorted), x)
    ELSE <<x>> \o sorted
RECURSIVE InsertByStart(_, _)
InsertByStart(sorted, x) ==
    IF sorted = << >> THEN <<x>>
    ELSE IF Head(sorted).start <= x.start
    THEN <<Head(sorted)>> \o InsertByStart(Tail(sorted), x)
    ELSE <<x>> \o sorted

RECURSIVE SortByStart(_)
SortByStart(seq) ==
    IF seq = << >> THEN << >>
    ELSE InsertByStart(SortByStart(SubSeq(seq, 1, Len(seq) - 1)), seq[Len(seq)])

\* reconcile_chapters(chapters, markers), lines 97-121: the first loop
\* appends the caller's chapters and writes titles into them, the second
\* appends the novel markers, line 120 sorts.
RunReconcile(chapters, markers) ==
    LET scans == ScanAssembly(chapters, markers)
        scanned == [i \in 1..Len(chapters) |-> scans[i].chapter]
        beforeSort == scanned \o NovelEntries(chapters, markers, 1)
    IN /\ assembly' = scanned
       /\ titleLog' = ScanLog(scans, 1)
       /\ encounter' = beforeSort
       /\ reconciled' = SortByStart(beforeSort)

\* A caller builds two lists and calls reconcile_chapters on them.
ReconcileCall ==
    /\ rcalls = 0
    /\ \E P \in PrimaryLists, S \in SecondaryLists :
          /\ asmAtCall' = P
          /\ llm' = S
          /\ RunReconcile(P, S)
    /\ prevReconciled' = << >>
    /\ rcalls' = 1
    /\ UNCHANGED <<systemVars, uploadVars, poolVars, translateVars, fileVars>>

\* The caller calls reconcile_chapters again on the same two lists.
ReconcileAgain ==
    /\ rcalls = 1
    /\ asmAtCall' = assembly
    /\ RunReconcile(assembly, llm)
    /\ prevReconciled' = reconciled
    /\ rcalls' = 2
    /\ UNCHANGED <<llm, systemVars, uploadVars, poolVars, translateVars, fileVars>>

NextReconcile ==
    \/ ReconcileCall
    \/ ReconcileAgain

SpecReconcile == Init /\ [][NextReconcile]_vars

\* ------------------------------------------------- write_srt / parse_srt
\* The content of a caption file, as the sequence of its line feeds and of
\* the non-empty pieces between them.  A piece is what one f-string field
\* wrote: an index, a "start --> end" pair or one line of caption text.
\* An entry's text is the sequence of its lines: <<"">> is the empty text,
\* <<"a", "b">> is "a\nb".
MaxSrtEntries == 3

Tok(kind, n, m, txt) == [kind |-> kind, n |-> n, m |-> m, txt |-> txt]

NL == Tok("nl", 0, 0, "")

\* '' as an element of str.split('\n').
EmptyLine == Tok("empty", 0, 0, "")

SrtTexts == {<<"a">>, <<"b">>, <<"">>, <<"a", "b">>}

SrtEntryLists ==
    UNION {{[i \in 1..n |-> CaptionEntry(i, t[i])] : t \in [1..n -> SrtTexts]} :
           n \in 0..MaxSrtEntries}

\* f"{e['text']}": the lines of the text with a line feed between them.
RECURSIVE TextTokens(_)
TextTokens(lines) ==
    IF lines = << >> THEN << >>
    ELSE LET first == IF Head(lines) = "" THEN << >>
                      ELSE <<Tok("text", 0, 0, Head(lines))>>
         IN  IF Len(lines) = 1 THEN first
             ELSE first \o <<NL>> \o TextTokens(Tail(lines))

\* The three f.write calls for one entry.
WriteEntry(e) ==
    <<Tok("index", e.index, 0, ""), NL>>
        \o <<Tok("timing", e.start, e.end, ""), NL>>
        \o TextTokens(e.text) \o <<NL, NL>>

RECURSIVE write_srt(_)
write_srt(entries) ==
    IF entries = << >> THEN << >>
    ELSE WriteEntry(Head(entries)) \o write_srt(Tail(entries))

RECURSIVE LStrip(_)
LStrip(doc) == IF doc # << >> /\ Head(doc) = NL THEN LStrip(Tail(doc)) ELSE doc

\* f.read().strip(): the line feeds at both ends go.
Strip(doc) == Reverse(LStrip(Reverse(LStrip(doc))))

\* content.split('\n\n'): separators are taken left to right, so an odd
\* run of line feeds leaves one at the head of the next block.
RECURSIVE SplitBlocks(_, _)
SplitBlocks(doc, cur) ==
    IF doc = << >> THEN <<cur>>
    ELSE IF Len(doc) >= 2 /\ doc[1] = NL /\ doc[2] = NL
         THEN <<cur>> \o SplitBlocks(SubSeq(doc, 3, Len(doc)), << >>)
         ELSE SplitBlocks(Tail(doc), Append(cur, Head(doc)))

\* block.split('\n')
RECURSIVE SplitLines(_, _)
SplitLines(block, cur) ==
    IF block = << >> THEN <<cur>>
    ELSE IF Head(block) = NL
         THEN <<cur>> \o SplitLines(Tail(block), EmptyLine)
         ELSE SplitLines(Tail(block), Head(block))

\* A line as the string it is in the file.
LineText(line) ==
    CASE line.kind = "text" -> line.txt
      [] line.kind = "index" -> ToString(line.n)
      [] line.kind = "timing" -> ToString(line.n) \o " --> " \o ToString(line.m)
      [] OTHER -> ""

RECURSIVE LStripLines(_)
LStripLines(ls) ==
    IF ls # << >> /\ Head(ls) = EmptyLine THEN LStripLines(Tail(ls)) ELSE ls

RECURSIVE JoinSpace(_)
JoinSpace(ls) ==
    IF ls = << >> THEN ""
    ELSE IF Len(ls) = 1 THEN LineText(ls[1])
         ELSE LineText(Head(ls)) \o " " \o JoinSpace(Tail(ls))

\* ' '.join(lines[2:]).strip(): the spaces that empty lines at either end
\* leave are stripped; the result is one line.
JoinedText(ls) == <<JoinSpace(Reverse(LStripLines(Reverse(LStripLines(ls)))))>>

\* The body of the loop of parse_srt for one block: the block is skipped,
\* or int() or the unpacking of the split raises ValueError, or an entry
\* is appended.
ParseBlock(block) ==
    LET lines == SplitLines(block, EmptyLine)
    IN  IF Len(lines) < 3 THEN [kind |-> "skip"]
        ELSE IF lines[1].kind # "index" THEN [kind |-> "raise"]
        ELSE IF lines[2].kind # "timing" THEN [kind |-> "raise"]
        ELSE [kind |-> "entry",
              entry |-> [index |-> lines[1].n,
                         start |-> lines[2].n,
                         end |-> lines[2].m,
                         text |-> JoinedText(SubSeq(lines, 3, Len(lines)))]]

RECURSIVE ParseBlocks(_, _)
ParseBlocks(blocks, entries) ==
    IF blocks = << >> THEN [ok |-> TRUE, entries |-> entries]
    ELSE LET r == ParseBlock(Head(blocks))
         IN  CASE r.kind = "skip" -> ParseBlocks(Tail(blocks), entries)
               [] r.kind = "raise" -> [ok |-> FALSE, entries |-> entries]
               [] OTHER -> ParseBlocks(Tail(blocks), Append(entries, r.entry))

parse_srt(doc) == ParseBlocks(SplitBlocks(Strip(doc), << >>), << >>)

\* write_srt(entries, path)
WriteSrtCall ==
    /\ spc = "idle"
    /\ \E entries \in SrtEntryLists :
          /\ srtEntries' = entries
          /\ srtDoc' = write_srt(entries)
    /\ spc' = "written"
    /\ UNCHANGED <<srtParsed, srtDoc2, systemVars, uploadVars, poolVars,
                   translateVars, reconcileVars, captionVars>>

\* parse_srt(path) on the file written
ParseSrtCall ==
    /\ spc = "written"
    /\ LET r == parse_srt(srtDoc)
       IN  /\ spc' = IF r.ok THEN "parsed" ELSE "raised"
           /\ srtParsed' = r.entries
    /\ UNCHANGED <<srtEntries, srtDoc, srtDoc2, systemVars, uploadVars, poolVars,
                   translateVars, reconcileVars, captionVars>>

\* write_srt of what parse_srt returned
WriteSrtAgain ==
    /\ spc = "parsed"
    /\ srtDoc2' = write_srt(srtParsed)
    /\ spc' = "rewritten"
    /\ UNCHANGED <<srtEntries, srtDoc, srtParsed, systemVars, uploadVars, poolVars,
                   translateVars, reconcileVars, captionVars>>

NextSrt ==
    \/ WriteSrtCall
    \/ ParseSrtCall
    \/ WriteSrtAgain

SpecSrt == Init /\ [][NextSrt]_vars

\* ------------------------------------------------- captioning.transcript_to_srt
MaxWords == 16

MAX_CAPTION_DURATION_MS == 5000
MAX_WORDS_PER_CAPTION == 15

\* Word-level transcripts: word i starts (i - 1) * step ms after the first
\* and lasts dur ms, so starts are non-decreasing and start < end.
WordSteps == {0, 400, 2500}
WordDurations == {100, 6000}

Word(i, step, dur) ==
    [text |-> "w" \o ToString(i), start |-> (i - 1) * step, end |-> (i - 1) * step + dur]

Transcripts ==
    {[i \in 1..n |-> Word(i, step, dur)] :
        n \in 0..MaxWords, step \in WordSteps, dur \in WordDurations}

\* flush_block (lines 93-100): the value of srt_entries after the call.
\* text is ' '.join of the words' texts, kept as the list of the texts
\* joined.
flush_block(entries, block, start) ==
    IF block = << >> THEN entries
    ELSE Append(entries, [start |-> start,
                          end |-> block[Len(block)].end,
                          text |-> [i \in 1..Len(block) |-> block[i].text]])

\* duration > MAX_CAPTION_DURATION_MS or len(current_block) >= MAX_WORDS_PER_CAPTION
BlockIsFull(duration, block) ==
    duration > MAX_CAPTION_DURATION_MS \/ Len(block) >= MAX_WORDS_PER_CAPTION

\* ms_to_srt_timestamp: the f-string of line 78 reads td.hours, an
\* attribute timedelta does not have, so every call raises AttributeError.
ms_to_srt_timestamp(ms) ==
    [raised |-> MsToSrtTimestampRaises, exc |-> "AttributeError", value |-> ""]

\* transcript_to_srt(transcript_json, output_path), lines 85-91
TranscriptToSrtCall ==
    /\ cpc = "idle"
    /\ \E transcript \in Transcripts :
          /\ words' = transcript
          /\ IF transcript = << >>
             THEN cpc' = "raised" /\ cexc' = "ValueError"
             ELSE cpc' = "loop" /\ cexc' = ""
    /\ wIdx' = 1
    /\ block_start' = None
    /\ current_block' = << >>
    /\ srt_entries' = << >>
    /\ UNCHANGED <<captionFile, systemVars, uploadVars, poolVars, translateVars,
                   reconcileVars, srtVars>>

\* One iteration of `for word in words` (lines 102-117).
TranscriptLoop ==
    /\ cpc = "loop"
    /\ wIdx <= Len(words)
    /\ LET word == words[wIdx]
           start_ms == word.start
           end_ms == word.end
           duration == end_ms - block_start
       IN  IF block_start = None
           THEN /\ block_start' = start_ms
                /\ current_block' = Append(current_block, word)
                /\ UNCHANGED srt_entries
           ELSE IF BlockIsFull(duration, current_block)
                THEN /\ srt_entries' = flush_block(srt_entries, current_block, block_start)
                     /\ block_start' = start_ms
                     /\ current_block' = <<word>>
                ELSE /\ current_block' = Append(current_block, word)
                     /\ UNCHANGED <<srt_entries, block_start>>
    /\ wIdx' = wIdx + 1
    /\ UNCHANGED <<cpc, words, cexc, captionFile, systemVars, uploadVars, poolVars,
                   translateVars, reconcileVars, srtVars>>

\* Line 120, the flush after the loop, and the open of line 123.
TranscriptFlush ==
    /\ cpc = "loop"
    /\ wIdx > Len(words)
    /\ srt_entries' = flush_block(srt_entries, current_block, block_start)
    /\ current_block' = << >>
    /\ captionFile' = << >>
    /\ cpc' = "write"
    /\ UNCHANGED <<words, wIdx, block_start, cexc, systemVars, uploadVars, poolVars,
                   translateVars, reconcileVars, srtVars>>

\* One iteration of the loop of lines 124-129; the file is closed when the
\* loop ends or an exception leaves it.
TranscriptWrite ==
    /\ cpc = "write"
    /\ LET idx == Len(captionFile) + 1
       IN  IF idx > Len(srt_entries)
           THEN /\ cpc' = "returned"
                /\ UNCHANGED <<cexc, captionFile>>
           ELSE LET start_ts == ms_to_srt_timestamp(srt_entries[idx].start)
                    end_ts == ms_to_srt_timestamp(srt_entries[idx].end)
                IN  IF start_ts.raised \/ end_ts.raised
                    THEN /\ cpc' = "raised"
                         /\ cexc' = IF start_ts.raised THEN start_ts.exc ELSE end_ts.exc
                         /\ UNCHANGED captionFile
                    ELSE /\ captionFile' = Append(captionFile,
                                [index |-> idx, start |-> start_ts.value,
                                 end |-> end_ts.value, text |-> srt_entries[idx].text])
                         /\ UNCHANGED <<cpc, cexc>>
    /\ UNCHANGED <<words, wIdx, block_start, current_block, srt_entries, systemVars,
                   uploadVars, poolVars, translateVars, reconcileVars, srtVars>>

NextCaption ==
    \/ TranscriptToSrtCall
    \/ TranscriptLoop
    \/ TranscriptFlush
    \/ TranscriptWrite

SpecCaption == Init /\ [][NextCaption]_vars

\* ================================================================== claims
\* on_message has finished with the last delivery: it returned, or an
\* exception left it.  trace, job and the callback variables are that
\* delivery's until the next one arrives.
Handled == pc \in {"done", "crashed"}

InTrace(e) == \E i \in 1..Len(trace) : trace[i] = e

\* The calls of process_job that leave the process.
CollaboratorOps ==
    {"download_media", "transcribe", "get_assembly_transcript",
     "generate_llm_chapters", "translate_srt", "upload_to_s3"}

\* A call to a collaborator raised while the delivery was handled.
CollaboratorFailed ==
    \E i \in 1..Len(trace) : trace[i].op \in CollaboratorOps /\ ~trace[i].ok

\* Anything outside the worker failed: a collaborator, a POST to the callback
\* endpoint, a call on the channel.
EnvironmentFailed ==
    \E i \in 1..Len(trace) :
        /\ trace[i].op \in CollaboratorOps \cup {"post", "basic_ack", "basic_nack"}
        /\ ~trace[i].ok

\* The delivered body is a complete job whose languages are all supported.
WellFormedJob ==
    /\ job.kind = "job"
    /\ \A i \in 1..Len(job.langs) : job.langs[i] \in TARGET_LANGUAGE_MAP

InDeadLetterQueue(m) == \E i \in 1..Len(dlq) : dlq[i] = m

InPrimaryQueue(m) == \E i \in 1..Len(ready) : ready[i] = m

\* C1: for every delivery handed to on_message exactly one of basic_ack and
\* basic_nack is called, whatever the body is and whichever step fails.
C1_ExactlyOneAckDecision ==
    Handled => CountOp(trace, "basic_ack") + CountOp(trace, "basic_nack") = 1

\* C2: a message rejected with basic_nack(requeue=False) is in the dead-letter
\* queue afterwards and is never discarded, whoever declared the primary
\* queue first.
C2_RejectedIsDeadLettered ==
    /\ dropped = 0
    /\ (pc = "done" /\ InTrace(Ev("basic_nack", "no_requeue", TRUE)))
           => InDeadLetterQueue(job)

\* C3: when the speech-to-text call raises, a callback with status failed and
\* a non-empty error_message is attempted, no completed callback is sent, and
\* the message is rejected without requeue and dead-lettered, not acknowledged.
C3_SttFailureFailsJob ==
    (pc = "done" /\ InTrace(Ev("transcribe", "", FALSE))) =>
        /\ InTrace(Ev("send_callback", "failed", TRUE))
        /\ cbPosts >= 1
        /\ cbPayload.status = "failed"
        /\ cbPayload.has_error_message
        /\ cbPayload.error_message # ""
        /\ ~InTrace(Ev("send_callback", "completed", TRUE))
        /\ InTrace(Ev("basic_nack", "no_requeue", TRUE))
        /\ ~HasOp(trace, "basic_ack")
        /\ InDeadLetterQueue(job)
        /\ ~InPrimaryQueue(job)

\* C4: after a failure at any point of processing a delivered job, reading
\* the job's fields included, the failed callback is attempted first and
\* basic_nack(requeue=False) is called afterwards, whatever the callback did;
\* the message is never acknowledged.
C4_CallbackThenReject ==
    (Handled /\ \E k \in 1..Len(trace) :
                    /\ trace[k].op \in CollaboratorOps \cup {"read_fields", "transcript_to_srt"}
                    /\ ~trace[k].ok) =>
        /\ \E i, j \in 1..Len(trace) :
              /\ i < j
              /\ trace[i] = Ev("send_callback", "failed", TRUE)
              /\ trace[j].op = "basic_nack"
              /\ trace[j].arg = "no_requeue"
        /\ ~HasOp(trace, "basic_ack")

\* C5: a job whose every stage succeeds gets a callback with status completed
\* whose results.translations has an URL for every requested language, and
\* its message is acknowledged.
C5_AllStagesSucceedCompletes ==
    (Handled /\ WellFormedJob /\ ~EnvironmentFailed) =>
        /\ cbPayload.status = "completed"
        /\ cbPayload.translations = {job.langs[i] : i \in 1..Len(job.langs)}
        /\ InTrace(Ev("basic_ack", "", TRUE))

\* C6: all or nothing.  A completed callback is sent only when every call
\* made before it returned; when a collaborator call failed, the callback of
\* the delivery is the failed one, it reports no artifact, and no completed
\* callback is sent.
C6_AllOrNothing ==
    /\ \A j \in 1..Len(trace) :
          (trace[j].arg = "completed" /\ trace[j].op \in {"send_callback", "post"})
              => \A i \in 1..(j - 1) : trace[i].ok
    /\ (Handled /\ CollaboratorFailed) =>
          /\ InTrace(Ev("send_callback", "failed", TRUE))
          /\ cbPayload.status = "failed"
          /\ cbPayload.translations = {}
          /\ ~InTrace(Ev("send_callback", "completed", TRUE))

C6_Witness ==
    /\ pc = "done"
    /\ CollaboratorFailed
    /\ cbPayload.status = "failed"
    /\ cbPosts >= 1

\* C7: when every attempt fails, enqueue_job makes exactly max_retries
\* attempts, sleeps 2^attempt seconds after each (strictly increasing) and
\* then raises; it never returns without a publish and never makes more than
\* max_retries attempts.
C7_EnqueueRetriesThenRaises ==
    /\ etries <= emax
    /\ \A i \in 1..Len(ewaits) : ewaits[i] = Pow(2, i)
    /\ \A i \in 1..(Len(ewaits) - 1) : ewaits[i] < ewaits[i + 1]
    /\ epc = "raised" => (etries = emax /\ eattempt = emax /\ Len(ewaits) = emax)
    /\ epc = "returned" => (epublished >= 1 /\ etries = eattempt + 1)
    /\ (epc = "loop" /\ eattempt = emax) => etries = emax

C7_Witness ==
    /\ epc = "raised"
    /\ emax = ENQUEUE_MAX_RETRIES
    /\ etries = 5
    /\ epublished = 0
    /\ ewaits = <<2, 4, 8, 16, 32>>

\* The POSTs of the current send_callback invocation, as positions of trace.
CallbackPosts ==
    LET start == CHOOSE i \in 0..Len(trace) :
                     /\ i > 0 => trace[i].op = "send_callback"
                     /\ \A k \in (i + 1)..Len(trace) : trace[k].op # "send_callback"
    IN {i \in (start + 1)..Len(trace) : trace[i].op = "post"}

C9_UndeliveredCallbackStillAcks ==
    (/\ Handled
     /\ WellFormedJob
     /\ ~CollaboratorFailed
     /\ cbReturn = "false"
     /\ \A i \in 1..Len(trace) : trace[i].op \in {"basic_ack", "basic_nack"} => trace[i].ok) =>
        /\ InTrace(Ev("basic_ack", "", TRUE))
        /\ ~HasOp(trace, "basic_nack")
        /\ ~InTrace(Ev("send_callback", "failed", TRUE))
        /\ ~InDeadLetterQueue(job)
        /\ ~InPrimaryQueue(job)

\* The first position of a call in the trace, 0 when it was not made.
FirstOf(op, arg) ==
    IF \E i \in 1..Len(trace) : trace[i].op = op /\ trace[i].arg = arg
    THEN CHOOSE i \in 1..Len(trace) :
             /\ trace[i].op = op /\ trace[i].arg = arg
             /\ \A k \in 1..(i - 1) : ~(trace[k].op = op /\ trace[k].arg = arg)
    ELSE 0

\* C10: within one job the stages come in the order Received, Transcribing,
\* Chaptering, Translating, Publishing, Notifying: every upload comes after
\* chaptering and after the translation of every language, and the callback
\* comes after all uploads.
C10_StageOrder ==
    LET uploads == {i \in 1..Len(trace) : trace[i].op = "upload_to_s3"}
        stagesDone(i) ==
            /\ 0 < FirstOf("reconcile_chapters", "")
            /\ FirstOf("reconcile_chapters", "") < i
            /\ \A l \in 1..Len(job.langs) :
                  /\ 0 < FirstOf("translate_srt", job.langs[l])
                  /\ FirstOf("translate_srt", job.langs[l]) < i
    IN /\ \A u \in uploads : stagesDone(u)
       /\ \A c \in 1..Len(trace) :
             trace[c].op = "send_callback" => \A u \in uploads : u < c
       /\ (Handled /\ WellFormedJob /\ ~EnvironmentFailed) =>
             /\ 0 < FirstOf("transcribe", "")
             /\ FirstOf("transcribe", "") < FirstOf("reconcile_chapters", "")
             /\ \A l \in 1..Len(job.langs) :
                   FirstOf("reconcile_chapters", "") < FirstOf("translate_srt", job.langs[l])
             /\ Cardinality(uploads) = 2 + Len(job.langs)
             /\ 0 < FirstOf("send_callback", "completed")

\* C11: uploads are idempotent under redelivery.  The key of an artifact is
\* a function of job_id, category and language code only; uploading the same
\* artifacts again adds no object, and artifacts of different jobs, categories
\* or languages never share a key.
C11_UploadsIdempotent ==
    /\ store = {ArtifactKey(a[1], a[2], a[3]) : a \in puts}
    /\ Cardinality(store) = Cardinality(puts)
    /\ Cardinality(store) <= nputs
    /\ \A a, b \in puts :
          ArtifactKey(a[1], a[2], a[3]) = ArtifactKey(b[1], b[2], b[3]) => a = b

C11_Witness ==
    /\ nputs = 3
    /\ Cardinality(store) = 2
    /\ \E a, b \in puts :
          /\ a[1] # b[1]
          /\ a[2] = "translations" /\ b[2] = "translations"
          /\ a[3] = b[3]

\* The delivery of message m ended with a basic_ack that the broker took.
Acknowledged(m) == pc = "done" /\ job = m /\ InTrace(Ev("basic_ack", "", TRUE))

InFlight(m) == \E i \in 1..Len(unacked) : unacked[i] = m

\* C12: every job that enqueue_job published eventually leaves the primary
\* queue for good, acknowledged or in the dead-letter queue, also when the
\* consumer crashes between delivery and acknowledgment; it is never lost and
\* never redelivered for ever.
C12_EnqueuedEventuallySettled ==
    \A m \in JobPayloads :
        (InPrimaryQueue(m) \/ InFlight(m)) ~> (Acknowledged(m) \/ InDeadLetterQueue(m))

\* The workers that hold message m unsettled.
Holders(m) == {w \in Workers : \E i \in 1..Len(heldBy[w]) : heldBy[w][i] = m}

\* C13: a worker holds at most one delivered, unsettled job at any time and
\* gets the next one only after it settled the current one; no message is
\* held by two workers at once, and a message that is delivered again was
\* requeued after a consumer ended.
C13_OneUnsettledPerWorker ==
    /\ \A w \in Workers : Len(heldBy[w]) <= 1
    /\ \A m \in 1..sent : Cardinality(Holders(m)) <= 1
    /\ \A m \in 1..sent :
          Cardinality(Holders(m)) + Cardinality({i \in 1..Len(poolReady) : poolReady[i] = m}) <= 1

C13_Witness ==
    /\ consumers = Workers
    /\ \A w \in Workers : Len(heldBy[w]) = 1
    /\ poolReady # << >>
    /\ \E w \in Workers : heldBy[w][1] \in redelivered

\* Every language a payload asks for is one of TARGET_LANGUAGE_MAP.
SupportedLanguages(m) == \A i \in 1..Len(m.langs) : m.langs[i] \in TARGET_LANGUAGE_MAP

\* C14: a submission with a language code outside en, fr, es, ar is rejected
\* before enqueue: enqueue_job publishes no such job, none is in the queue or
\* delivered, and none reaches process_job.
C14_UnsupportedLanguageRejected ==
    /\ epublished >= 1 => SupportedLanguages(emsg)
    /\ \A i \in 1..Len(ready) : ready[i].kind = "job" => SupportedLanguages(ready[i])
    /\ \A i \in 1..Len(unacked) : unacked[i].kind = "job" => SupportedLanguages(unacked[i])
    /\ (job.kind = "job" /\ pc \in TryPcs \cup {"fields"}) => SupportedLanguages(job)

\* C15: a failed call to a collaborator is not retried within the pipeline.
\* After the first LLM call that fails, the call is not issued again and the
\* translation is aborted.
C15_NoRetryAfterCollaboratorFailure ==
    \A i, j \in 1..Len(llmCalls) : i < j => llmCalls[i].ok

\* The entries of a list that start at t, in the list's order.
StartingAt(seq, t) == LET AtT(x) == x.start = t IN SelectSeq(seq, AtT)

\* C16: the list reconcile_chapters returns is in non-decreasing start order,
\* and entries with equal start keep their encounter order: the primary
\* chapters in P's order first, then the novel secondary chapters in S's order.
C16_SortedStable ==
    rcalls >= 1 =>
        /\ \A i \in 1..(Len(reconciled) - 1) : reconciled[i].start <= reconciled[i + 1].start
        /\ Len(reconciled) = Len(encounter)
        /\ \A t \in 0..MaxTick : StartingAt(reconciled, t) = StartingAt(encounter, t)
        /\ SubSeq(encounter, 1, Len(asmAtCall)) = assembly
        /\ \A k \in (Len(asmAtCall) + 1)..Len(encounter) :
              \E j \in 1..Len(llm) : encounter[k] = NovelEntry(llm[j])

C16_Witness ==
    /\ rcalls = 1
    /\ reconciled # encounter
    /\ \E i \in 1..(Len(reconciled) - 1) :
          /\ reconciled[i].start = reconciled[i + 1].start
          /\ reconciled[i] # reconciled[i + 1]

\* C17: a secondary chapter whose start is within 1 second of the start of a
\* primary chapter, a difference of exactly 1 second included, is not in the
\* output as an entry of its own.
C17_NoStandaloneWithinOneSecond ==
    rcalls >= 1 =>
        \A k \in (Len(asmAtCall) + 1)..Len(encounter) :
            \A i \in 1..Len(asmAtCall) :
                AbsDiff(encounter[k].start, asmAtCall[i].start) > OneSecond

\* C18: the output has at most len(P) + len(S) entries and holds, for every
\* primary chapter, an entry with that chapter's start and end.
C18_LengthAndPrimarySpans ==
    rcalls >= 1 =>
        /\ Len(reconciled) <= Len(asmAtCall) + Len(llm)
        /\ \A i \in 1..Len(asmAtCall) :
              \E k \in 1..Len(reconciled) :
                  /\ reconciled[k].start = asmAtCall[i].start
                  /\ reconciled[k].end = asmAtCall[i].end
                  /\ "headline" \in DOMAIN reconciled[k]
                  /\ reconciled[k].headline = asmAtCall[i].headline

C18_Witness ==
    /\ rcalls = 1
    /\ Len(asmAtCall) = 2
    /\ Len(llm) = 2
    /\ Len(reconciled) = 3
    /\ titleLog # << >>

\* C19: reconcile_chapters has no side effect: after a call the caller's
\* lists and the chapters in them are as they were, and a second call on the
\* same lists returns an equal list.
C19_NoSideEffect ==
    /\ rcalls >= 1 => assembly = asmAtCall
    /\ rcalls = 2 => reconciled = prevReconciled

\* C20: the title of a primary chapter is replaced only by the title of a
\* secondary chapter that starts in [start, end) of it and is strictly longer
\* than the title the chapter holds at that point of the scan; the title
\* never gets shorter.
C20_TitleOnlyGrows ==
    rcalls = 1 =>
        \A n \in 1..Len(titleLog) :
            /\ StartsWithin(asmAtCall[titleLog[n].asm], llm[titleLog[n].marker])
            /\ Len(titleLog[n].new) > Len(titleLog[n].held)

\* C21: translate_srt returns a list of the same length and order as its
\* input, each entry with the index, start and end of the input entry at its
\* position and a text of its own; the input entries are not modified.
C21_TranslatePreservesTiming ==
    /\ [](/\ Len(translated) <= Len(tEntries)
          /\ \A i \in 1..Len(translated) :
                /\ DOMAIN translated[i] = {"index", "start", "end", "text"}
                /\ translated[i].index = tEntries[i].index
                /\ translated[i].start = tEntries[i].start
                /\ translated[i].end = tEntries[i].end
          /\ (tpc = "returned" /\ tCode \in TARGET_LANGUAGE_MAP)
                => Len(translated) = Len(tEntries))
    /\ [][(tpc \in {"loop", "call"}) => (tEntries' = tEntries)]_vars

C21_Witness ==
    /\ tpc = "returned"
    /\ tCode \in TARGET_LANGUAGE_MAP
    /\ Len(translated) = 2
    /\ tWaits # << >>
    /\ translated[1].text # tEntries[1].text


\* C22: whatever entries write_srt is given, parse_srt of the file it wrote
\* returns as many entries with the same index, start, end and text (empty
\* and multi-line texts included), and writing those again gives the same
\* file.
C22_SrtRoundTrip ==
    /\ spc # "raised"
    /\ spc \in {"parsed", "rewritten"} => srtParsed = srtEntries
    /\ spc = "rewritten" => srtDoc2 = srtDoc

\* C23: a callback payload contains error_message exactly when its status
\* is failed, and then it is the description of the exception that made
\* the job fail; a completed payload has none.
C23_ErrorMessageIffFailed ==
    cbPayload.status \in {"completed", "failed"} =>
        /\ cbPayload.has_error_message <=> (cbPayload.status = "failed")
        /\ cbPayload.status = "failed" => cbPayload.error_message = err

\* C24: every callback payload carries the submitted_at of the job as it
\* was enqueued, and the job's fields are those of the enqueued message
\* from delivery to notification.
C24_SubmittedAtIsSubmissionTime ==
    /\ cbPayload.status \in {"completed", "failed"} =>
          /\ cbPayload.submitted_at = "submission_time"
          /\ cbPayload.job_id = job.job_id
    /\ (unacked # << >> /\ job # NoMsg) => job = Head(unacked)

\* The texts of the blocks, one after the other.
RECURSIVE BlockWords(_)
BlockWords(blocks) ==
    IF blocks = << >> THEN << >> ELSE Head(blocks).text \o BlockWords(Tail(blocks))

\* The grouping of the words into blocks, as the claim of C25 has it.
WellGrouped(blocks) ==
    /\ \A i \in 1..Len(blocks) :
          /\ Len(blocks[i].text) \in 1..MAX_WORDS_PER_CAPTION
          /\ blocks[i].start < blocks[i].end
    /\ \A i \in 1..(Len(blocks) - 1) : blocks[i].start <= blocks[i + 1].start
    /\ BlockWords(blocks) = [i \in 1..Len(words) |-> words[i].text]

\* C25: for a transcript whose words have start < end and non-decreasing
\* times, transcript_to_srt ends with blocks numbered 1..n in the file, each
\* of at most MAX_WORDS_PER_CAPTION words and with start < end, starts
\* non-decreasing, and the blocks' words are the input words in order.
C25_CaptionBlocks ==
    (cpc \in {"returned", "raised"} /\ words # << >>) =>
        /\ cpc = "returned"
        /\ Len(captionFile) = Len(srt_entries)
        /\ \A i \in 1..Len(captionFile) : captionFile[i].index = i
        /\ WellGrouped(captionFile)

\* The blocks collected in srt_entries before the file is written.
GroupingInMemory ==
    cpc \in {"write", "returned", "raised"} /\ words # << >> => WellGrouped(srt_entries)

\* C26: a call of enqueue_job that returns has published its message to
\* the primary queue exactly once, whichever steps of its attempts failed.
C26_PublishedOncePerCall ==
    epc = "returned" => epublished = 1

====
